---- MODULE Spec2Model ----
(***************************************************************************)
(* SentryBot (src/main.py, src/bot.py): the tool-call orchestration loop   *)
(* ask_claude_with_memory, the bounded per-conversation memory, and the    *)
(* command handlers that drive them.                                       *)
(*                                                                         *)
(* The bot runs on one asyncio event loop: a handler runs atomically from  *)
(* one await to the next.  Each action below is one such stretch of code.  *)
(* Text is a TLA+ string; "+" on Python strings is \o, "" is falsy.        *)
(* Time is counted in hours.                                               *)
(***************************************************************************)
EXTENDS Integers, Sequences, FiniteSets, TLC

VARIABLES
    now,                  \* datetime.now(), in hours since the bot started
    ready,                \* setup_hook has run
    sentry_session,       \* self.sentry_session
    sentry_tools,         \* self.sentry_tools
    conversation_memory,  \* self.conversation_memory: key -> deque of turns
    loop,                 \* per task: the locals of ask_claude_with_memory
    obs,                  \* per task: history variables (what the run did)
    env,                  \* what the environment may still do
    sent,                 \* the messages of the last ctx.send sequence
    mlog,                 \* per key: history of the memory operations on it
    last_read             \* the get_conversation_history call that just returned

vars == <<now, ready, sentry_session, sentry_tools, conversation_memory,
          loop, obs, env, sent, mlog, last_read>>

----------------------------------------------------------------------------
(* Bounds of the model *)

MaxToolUses == 11    \* tool_use segments the LLM emits in a long run
MaxFaultToolUses == 3  \* tool_use segments the LLM emits in a faulty run
MaxShortToolUses == 1  \* tool_use segments the LLM emits in a late run
MaxAnomalies == 1    \* exceptions and irregular tool replies in a faulty run
MaxRuns == 2         \* ask commands handled in a day of short runs
MaxCommands == 1     \* forget, memory and status commands in such a day
MaxClock == 3        \* hours the clock advances in such a day
MaxAppends == 12     \* add_to_memory calls when the memory is filled
MaxAgedAppends == 4  \* add_to_memory calls when the memory ages
MaxMemClock == 3     \* hours the clock advances while the memory ages
MaxMemCommands == 1  \* forget and memory commands on the memory
MaxStored == 9       \* turns left in a key's memory by earlier conversations
MaxLateClock == 3    \* hours the clock advances during a late run
MaxReplyLen == 4500  \* characters of the longest text the LLM answers with
MaxPairRuns == 2        \* ask commands handled when two may run at once
MaxPairToolUses == 1    \* tool_use segments the LLM emits for them
MaxMessages == 1        \* messages on_message sees that are not known commands
MaxFailToolUses == 2    \* tool_use segments the LLM emits in a failing run
MaxFailAnomalies == 1   \* exceptions and irregular tool replies in such a run
MaxBusyCommands == 1    \* forget, memory and status commands during a busy run
MaxBusyClock == 1       \* hours the clock advances during such a run

(* Program constants *)

maxlen == 10             \* deque(maxlen=10)
memory_timeout == 2      \* timedelta(hours=2)
max_iterations == 10     \* max_iterations = 10
chunk_size == 2000       \* Discord message limit used by the handlers

None == "None"
Runs == {1, 2}

Contexts ==
    { [author |-> "1", channel |-> "11"],
      [author |-> "11", channel |-> "1"] }

NoCtx == [author |-> "", channel |-> ""]

\* what the k-th ask of a behaviour may ask
Questions(k) == {"question " \o ToString(k)}

----------------------------------------------------------------------------
(* Memory store *)

\* (mutant) "Option 2: Per channel (all users in channel share memory)"
get_memory_key_per_channel(ctx) == "channel_" \o ctx.channel

get_memory_key(ctx) == "user_" \o ctx.author \o "_channel_" \o ctx.channel

Keys == { get_memory_key(c) : c \in Contexts }

\* (mutant) a full deque drops the new item
deque_append_drop_new(dq, x) ==
    IF Len(dq) >= maxlen THEN dq ELSE Append(dq, x)

\* (mutant) a deque without maxlen
deque_append_unbounded(dq, x) == Append(dq, x)

\* deque(maxlen=10).append: a full deque drops its leftmost item
deque_append(dq, x) ==
    IF Len(dq) >= maxlen THEN Tail(dq) \o <<x>> ELSE Append(dq, x)

\* (mutant) every turn is stored as a user turn
new_turn_as_user(role, content, t) ==
    [role |-> "user", content |-> content, timestamp |-> t]

new_turn(role, content, t) ==
    [role |-> role, content |-> content, timestamp |-> t]

\* (mutant) the turn is appended to every conversation
add_to_every_memory(mem, ctx, role, content, t) ==
    [k \in DOMAIN mem |-> deque_append(mem[k], new_turn(role, content, t))]

add_to_memory(mem, ctx, role, content, t) ==
    [mem EXCEPT ![get_memory_key(ctx)] = deque_append(@, new_turn(role, content, t))]

\* (mutant) `if` for `while`: at most one stale turn is dropped
pop_one_stale(dq, t) ==
    IF dq # <<>> /\ t - dq[1].timestamp > memory_timeout THEN Tail(dq) ELSE dq

\* while memory and now - memory[0]["timestamp"] > self.memory_timeout: popleft()
RECURSIVE pop_stale(_, _)
pop_stale(dq, t) ==
    IF dq # <<>> /\ t - dq[1].timestamp > memory_timeout
    THEN pop_stale(Tail(dq), t)
    ELSE dq

\* (mutant) the stale turns are left in the store
evict_nothing(mem, ctx, t) == mem

\* the store after get_conversation_history(ctx) at time t
evict_memory(mem, ctx, t) ==
    [mem EXCEPT ![get_memory_key(ctx)] = pop_stale(@, t)]

\* (mutant) the stored deque is left as it is
clear_nothing(mem, ctx) == mem

\* conversation_memory[memory_key].clear()
clear(mem, ctx) == [mem EXCEPT ![get_memory_key(ctx)] = <<>>]

\* "Convert to Claude format": role and content only
claude_format(dq) ==
    [i \in 1..Len(dq) |-> [role |-> dq[i].role, content |-> dq[i].content]]

\* the list get_conversation_history(ctx) returns at time t
get_conversation_history(mem, ctx, t) ==
    claude_format(pop_stale(mem[get_memory_key(ctx)], t))

----------------------------------------------------------------------------
(* Tool gateway: connect_to_sentry *)

ClientSession == "ClientSession"

HandshakeOutcomes ==
    {"stdio_client failed", "ClientSession failed", "initialize failed",
     "list_tools failed", "connected"}

Catalogs ==
    { <<>>,
      <<[name |-> "get_issue", description |-> "Look up an issue",
         inputSchema |-> "{id}"]>> }

\* (mutant) the except clause does not reset the session
connect_to_sentry_no_reset(outcome, catalog) ==
    IF outcome = "connected"
    THEN [session |-> ClientSession, tools |-> catalog]
    ELSE IF outcome \in {"initialize failed", "list_tools failed"}
    THEN [session |-> ClientSession, tools |-> <<>>]
    ELSE [session |-> None, tools |-> <<>>]

\* the session and catalog connect_to_sentry leaves behind: any exception
\* resets the session to None, and the catalog is assigned by the last
\* statement of the try block only
connect_to_sentry(outcome, catalog) ==
    IF outcome = "connected"
    THEN [session |-> ClientSession, tools |-> catalog]
    ELSE [session |-> None, tools |-> <<>>]

\* "Prepare Sentry tools for Claude"
claude_tools(session, tools) ==
    IF session # None /\ tools # <<>>
    THEN [i \in 1..Len(tools) |->
            [name |-> tools[i].name, description |-> tools[i].description,
             input_schema |-> tools[i].inputSchema]]
    ELSE <<>>

----------------------------------------------------------------------------
(* The environment: what the LLM and the tool provider may answer *)

TextBlock(t) == [type |-> "text", text |-> t]

ToolUseBlock(id, name) ==
    [type |-> "tool_use", id |-> id, name |-> name, input |-> "{}"]

\* correlation ids are unique per response segment
ToolUseId(q, i) == "toolu_" \o ToString(q) \o "_" \o ToString(i)

\* a text of n characters in which no two chunks of 2000 are alike
RECURSIVE Repeat(_, _)
Repeat(str, n) ==
    IF n = 0 THEN ""
    ELSE IF n % 2 = 1 THEN str \o Repeat(str, n - 1)
    ELSE LET half == Repeat(str, n \div 2) IN half \o half

Text(n) == SubSeq(Repeat("abcdefg", n \div 7 + 1), 1, n)

\* the lengths of the long answers: around one chunk, around two, and longer
ReplyLengths ==
    { 1, chunk_size - 1, chunk_size, chunk_size + 1,
      2 * chunk_size - 1, 2 * chunk_size, 2 * chunk_size + 1, MaxReplyLen }

\* response.content of the q-th query of a run; env.long holds the lengths
\* of the long texts the LLM may answer with besides
LLMResponses(q) ==
    { <<TextBlock(Text(n))>> : n \in env.long } \cup
    { <<>>,
      <<TextBlock("")>>,
      <<TextBlock("ab")>>,
      <<TextBlock("a"), TextBlock("b")>>,
      <<ToolUseBlock(ToolUseId(q, 1), "get_issue")>>,
      <<TextBlock("a"), ToolUseBlock(ToolUseId(q, 2), "get_issue"),
        TextBlock("b"), ToolUseBlock(ToolUseId(q, 4), "list_issues")>> }

LLMErrors == {"overloaded"}

\* CallToolResult: what call_tool returns
RegularReply == [content |-> <<[text |-> "Issue resolved"]>>, isError |-> FALSE]

IrregularReplies ==
    { [content |-> <<>>, isError |-> FALSE],
      [content |-> <<[text |-> "not found"]>>, isError |-> TRUE] }

ToolErrors == {"connection closed"}

is_tool_use(block) == block.type = "tool_use"

RECURSIVE count_tool_use(_)
count_tool_use(content) ==
    IF content = <<>> THEN 0
    ELSE (IF is_tool_use(content[1]) THEN 1 ELSE 0) + count_tool_use(Tail(content))

----------------------------------------------------------------------------
(* ask_claude_with_memory: the pieces of the loop *)

FALLBACK == "I couldn't process that request."
TOO_MANY_STEPS == "Sorry, the request took too many steps to complete."

\* except Exception as e: return f"Sorry, I encountered an error: {str(e)}"
error_reply(e) == "Sorry, I encountered an error: " \o e

\* (mutant) the loop condition is off by one
keep_looping_once_more(iteration) == iteration <= max_iterations

\* claude_params: "tools" is passed only when there are tools to offer
claude_params(messages, tools) ==
    IF tools # <<>>
    THEN [messages |-> messages, tools |-> tools]
    ELSE [messages |-> messages]

\* while iteration < max_iterations
keep_looping(iteration) == iteration < max_iterations

\* (mutant) the for loop stops after its first tool call
RECURSIVE first_tool_use_only(_, _, _)
first_tool_use_only(content, from, session) ==
    IF from > Len(content) \/ (\E j \in 1..(from - 1) : is_tool_use(content[j]))
    THEN 0
    ELSE IF is_tool_use(content[from]) /\ session # None THEN from
    ELSE first_tool_use_only(content, from + 1, session)

\* for content in response.content:
\*     if content.type == "tool_use" and self.sentry_session:
\* the position of the first segment at or after `from` whose tool is called;
\* 0 when the for loop ends without another call
RECURSIVE next_tool_use(_, _, _)
next_tool_use(content, from, session) ==
    IF from > Len(content) THEN 0
    ELSE IF is_tool_use(content[from]) /\ session # None THEN from
    ELSE next_tool_use(content, from + 1, session)

\* str(tool_result.content[0].text) if tool_result.content else "No result"
result_content(reply) ==
    IF reply.content # <<>> THEN reply.content[1].text ELSE "No result"

\* the tool_result appended when call_tool returned
tool_result_ok(block, reply) ==
    [type |-> "tool_result", tool_use_id |-> block.id,
     content |-> result_content(reply)]

\* (mutant) the error result does not carry the exception's message
tool_result_error_blank(block, e) ==
    [type |-> "tool_result", tool_use_id |-> block.id, content |-> "Error"]

\* the tool_result appended by `except Exception as e`
tool_result_error(block, e) ==
    [type |-> "tool_result", tool_use_id |-> block.id,
     content |-> "Error: " \o e]

\* (mutant) one user turn per tool result
append_each_tool_result(messages, tool_results) ==
    messages \o [j \in 1..Len(tool_results) |->
                    [role |-> "user", content |-> <<tool_results[j]>>]]

\* messages.append({"role": "user", "content": tool_results})
append_tool_results(messages, tool_results) ==
    Append(messages, [role |-> "user", content |-> tool_results])

\* (mutant) final_text = content.text: only the last text segment is kept
RECURSIVE last_text_of(_)
last_text_of(content) ==
    IF content = <<>> THEN ""
    ELSE IF last_text_of(Tail(content)) # "" THEN last_text_of(Tail(content))
    ELSE IF content[1].type = "text" THEN content[1].text
    ELSE ""

\* final_text += content.text, over the text segments in order
RECURSIVE final_text_of(_)
final_text_of(content) ==
    IF content = <<>> THEN ""
    ELSE (IF content[1].type = "text" THEN content[1].text ELSE "")
         \o final_text_of(Tail(content))

\* return final_text if final_text else "I couldn't process that request."
final_reply(final_text) == IF final_text # "" THEN final_text ELSE FALLBACK

\* the handlers' chunked send: one message per slice of 2000 characters
Min(a, b) == IF a < b THEN a ELSE b

\* (mutant) the slice after the last full one is not sent
dispatch_full_chunks(response) ==
    IF Len(response) > chunk_size
    THEN [k \in 1..(Len(response) \div chunk_size) |->
            SubSeq(response, (k - 1) * chunk_size + 1, k * chunk_size)]
    ELSE <<response>>

dispatch(response) ==
    IF Len(response) > chunk_size
    THEN [k \in 1..((Len(response) + chunk_size - 1) \div chunk_size) |->
            SubSeq(response, (k - 1) * chunk_size + 1,
                   Min(k * chunk_size, Len(response)))]
    ELSE <<response>>

----------------------------------------------------------------------------
(* on_message: the pieces *)

bot_user == "99"                 \* self.user.id
DISCORD_SERVER_ID == "home"      \* os.getenv("DISCORD_SERVER_ID")
command_prefix == "!"
GREETING == "Hello!"

\* f'<@{self.user.id}>'
mention == "<@" \o bot_user \o ">"

\* str.startswith
startswith(str, prefix) ==
    Len(str) >= Len(prefix) /\ SubSeq(str, 1, Len(prefix)) = prefix

\* str.replace(old, ''): every occurrence of old is removed, left to right
RECURSIVE remove(_, _)
remove(str, old) ==
    IF Len(str) < Len(old) THEN str
    ELSE IF SubSeq(str, 1, Len(old)) = old
    THEN remove(SubSeq(str, Len(old) + 1, Len(str)), old)
    ELSE SubSeq(str, 1, 1) \o remove(SubSeq(str, 2, Len(str)), old)

\* str.strip(), for the blanks of the model's texts
RECURSIVE strip(_)
strip(str) ==
    IF str = "" THEN ""
    ELSE IF SubSeq(str, 1, 1) = " " THEN strip(SubSeq(str, 2, Len(str)))
    ELSE IF SubSeq(str, Len(str), Len(str)) = " "
    THEN strip(SubSeq(str, 1, Len(str) - 1))
    ELSE str

\* content = message.content.replace(f'<@{self.user.id}>', '').strip()
\* if not content: content = "Hello!"
stripped_content(message) ==
    LET content == strip(remove(message.content, mention))
    IN IF content = "" THEN GREETING ELSE content

\* the messages on_message may see: from the bot itself or from a user, in
\* the configured guild, in another guild or in no guild (a direct message,
\* whose channel is a DMChannel), mentioning the bot or not
Messages ==
    [author : {bot_user, "1"},
     guild : {DISCORD_SERVER_ID, "elsewhere", None},
     channel : {"11"},
     content : {mention \o " why?", " " \o mention \o " ", "why?", "!why"},
     mentions : BOOLEAN]

NoMessage ==
    [author |-> "", guild |-> "", channel |-> "", content |-> "",
     mentions |-> FALSE]

----------------------------------------------------------------------------
(* Task state *)

IdleLoop ==
    [pc |-> "idle", ctx |-> NoCtx, user_message |-> "", messages |-> <<>>,
     tools |-> <<>>, iteration |-> 0, response |-> <<>>, idx |-> 0,
     tool_calls_made |-> FALSE, tool_results |-> <<>>, result |-> ""]

IdleObs ==
    [prev |-> 0,            \* turns stored for the key when the run started
     hist_ts |-> <<>>,      \* timestamps of the turns read from memory
     added |-> <<>>,        \* the turns this run appended to memory
     nqueries |-> 0,        \* LLM queries issued
     params |-> [messages |-> <<>>],  \* claude_params of the last query
     query_time |-> 0,      \* when the last LLM query was issued
     calls |-> <<>>,        \* ids passed to call_tool since the last response
     inflight |-> {},       \* ids of the call_tool invocations not yet finished
     failed |-> {},         \* <<id, error>> of the calls that raised
     reported |-> {},       \* ids of the calls whose reply had isError set
     llm_error |-> "",      \* the error of the LLM query that raised
     foreign |-> FALSE]     \* another handler changed this key's memory

\* per key: every turn ever appended, and how many of them a clear or an age
\* eviction has removed
NoLog == [turns |-> <<>>, since |-> 0]

NoRead == [key |-> "", at |-> -1, before |-> <<>>, messages |-> <<>>,
           appended |-> <<>>]

Active(r) == loop[r].pc # "idle"

\* another handler touched the memory of `key`: every other run on it notes it
Disturb(o, key, self) ==
    [r \in Runs |->
        IF r # self /\ Active(r) /\ get_memory_key(loop[r].ctx) = key
        THEN [o[r] EXCEPT !.foreign = TRUE]
        ELSE o[r]]

\* (mutant) `iteration += 1` is missing
LoopHead_no_increment(l, o, t) ==
    IF keep_looping(l.iteration)
    THEN [l |-> [l EXCEPT !.pc = "await_llm", !.response = <<>>, !.idx = 0],
          o |-> [o EXCEPT !.nqueries = @ + 1, !.query_time = t,
                          !.params = claude_params(l.messages, l.tools)],
          store |-> ""]
    ELSE [l |-> [l EXCEPT !.pc = "done", !.result = TOO_MANY_STEPS],
          o |-> o,
          store |-> ""]

\* Lines 169-182: the loop head.  Either the next query is issued, or the
\* loop ends and the cap message is returned.
LoopHead(l, o, t) ==
    IF keep_looping(l.iteration)
    THEN [l |-> [l EXCEPT !.pc = "await_llm", !.iteration = @ + 1,
                          !.response = <<>>, !.idx = 0],
          o |-> [o EXCEPT !.nqueries = @ + 1, !.query_time = t,
                          !.params = claude_params(l.messages, l.tools)],
          store |-> ""]
    ELSE [l |-> [l EXCEPT !.pc = "done", !.result = TOO_MANY_STEPS],
          o |-> o,
          store |-> ""]

\* (mutant) what is stored is the returned string, the fallback included
Scan_storing_reply(l, o, from, session, t) ==
    LET j == next_tool_use(l.response, from, session) IN
    IF j # 0
    THEN [l |-> [l EXCEPT !.pc = "await_tool", !.idx = j,
                          !.tool_calls_made = TRUE],
          o |-> [o EXCEPT !.calls = Append(@, l.response[j].id),
                          !.inflight = @ \cup {l.response[j].id}],
          store |-> ""]
    ELSE IF l.tool_calls_made
    THEN LoopHead([l EXCEPT !.messages = append_tool_results(@, l.tool_results)],
                  o, t)
    ELSE LET final_text == final_text_of(l.response) IN
         [l |-> [l EXCEPT !.pc = "done", !.result = final_reply(final_text)],
          o |-> o,
          store |-> final_reply(final_text)]

\* Lines 189-232 from segment `from` of the response on: up to the next
\* await (call_tool or the next query) or to the return.  `store` is the
\* final text to add to memory ("" for none).
Scan(l, o, from, session, t) ==
    LET j == next_tool_use(l.response, from, session) IN
    IF j # 0
    THEN [l |-> [l EXCEPT !.pc = "await_tool", !.idx = j,
                          !.tool_calls_made = TRUE],
          o |-> [o EXCEPT !.calls = Append(@, l.response[j].id),
                          !.inflight = @ \cup {l.response[j].id}],
          store |-> ""]
    ELSE IF l.tool_calls_made
    THEN LoopHead([l EXCEPT !.messages = append_tool_results(@, l.tool_results)],
                  o, t)
    ELSE LET final_text == final_text_of(l.response) IN
         [l |-> [l EXCEPT !.pc = "done", !.result = final_reply(final_text)],
          o |-> o,
          store |-> final_text]

\* the effect of a step of run r that ends in record `n` of LoopHead or Scan
Step(r, n) ==
    /\ loop' = [loop EXCEPT ![r] = n.l]
    /\ IF n.store # ""
       THEN /\ conversation_memory' =
                  add_to_memory(conversation_memory, n.l.ctx, "assistant",
                                n.store, now)
            /\ obs' = [Disturb(obs, get_memory_key(n.l.ctx), r) EXCEPT ![r] =
                         [n.o EXCEPT !.added =
                             Append(@, new_turn("assistant", n.store, now))]]
       ELSE /\ conversation_memory' = conversation_memory
            /\ obs' = [obs EXCEPT ![r] = n.o]

----------------------------------------------------------------------------
(* Actions *)

\* setup_hook: the one handshake with the tool provider, before any message
SetupHook(outcome, catalog) ==
    /\ ~ready
    /\ ready' = TRUE
    /\ sentry_session' = connect_to_sentry(outcome, catalog).session
    /\ sentry_tools' = connect_to_sentry(outcome, catalog).tools
    /\ env' = [env EXCEPT !.handshake =
                  IF outcome = "connected" THEN "connected" ELSE "failed"]
    /\ UNCHANGED <<now, conversation_memory, loop, obs, sent, mlog, last_read>>

\* (mutant) the user turn is stored before the history is read
StartRun_store_first(ctx, user_message) ==
    LET r == CHOOSE x \in Runs :
                 ~Active(x) /\ \A y \in Runs : ~Active(y) => x <= y
        key == get_memory_key(ctx)
        evicted == evict_memory(conversation_memory, ctx, now)
        stored == add_to_memory(evicted, ctx, "user", user_message, now)
        messages == Append(get_conversation_history(stored, ctx, now),
                           [role |-> "user", content |-> user_message])
        l == [IdleLoop EXCEPT !.ctx = ctx, !.user_message = user_message,
                              !.messages = messages,
                              !.tools = claude_tools(sentry_session, sentry_tools)]
        o == [IdleObs EXCEPT
                !.prev = Len(conversation_memory[key]),
                !.hist_ts = [i \in 1..Len(evicted[key]) |-> evicted[key][i].timestamp],
                !.added = <<new_turn("user", user_message, now)>>]
        n == LoopHead(l, o, now)
    IN /\ conversation_memory' = stored
       /\ loop' = [loop EXCEPT ![r] = n.l]
       /\ obs' = [Disturb(obs, key, r) EXCEPT ![r] = n.o]

\* ask_claude_with_memory up to its first await: history is read, the user
\* turn is appended and stored, the tools are prepared and the first query is
\* issued
StartRun(ctx, user_message) ==
    LET r == CHOOSE x \in Runs :
                 ~Active(x) /\ \A y \in Runs : ~Active(y) => x <= y
        key == get_memory_key(ctx)
        evicted == evict_memory(conversation_memory, ctx, now)
        messages == Append(get_conversation_history(conversation_memory, ctx, now),
                           [role |-> "user", content |-> user_message])
        l == [IdleLoop EXCEPT !.ctx = ctx, !.user_message = user_message,
                              !.messages = messages,
                              !.tools = claude_tools(sentry_session, sentry_tools)]
        o == [IdleObs EXCEPT
                !.prev = Len(conversation_memory[key]),
                !.hist_ts = [i \in 1..Len(evicted[key]) |-> evicted[key][i].timestamp],
                !.added = <<new_turn("user", user_message, now)>>]
        n == LoopHead(l, o, now)
    IN /\ conversation_memory' =
             add_to_memory(evicted, ctx, "user", user_message, now)
       /\ loop' = [loop EXCEPT ![r] = n.l]
       /\ obs' = [Disturb(obs, key, r) EXCEPT ![r] = n.o]

\* the ask command up to its first await
Ask(ctx, question) ==
    /\ ready
    /\ env.runs > 0
    /\ Cardinality({r \in Runs : Active(r)}) < env.slots
    /\ StartRun(ctx, question)
    /\ env' = [env EXCEPT !.runs = @ - 1, !.asked = @ + 1]
    /\ UNCHANGED <<now, ready, sentry_session, sentry_tools, sent, mlog, last_read>>

\* on_message up to its first await, for a message that is not one of the
\* bot's commands.  message.guild is None for a direct message, and
\* message.guild.id then raises AttributeError: the handler ends there.
\* process_commands finds no command for a text that starts with the prefix.
OnMessage(message) ==
    /\ ready
    /\ env.messages > 0
    /\ Cardinality({r \in Runs : Active(r)}) < env.slots
    /\ env' = [env EXCEPT !.messages = @ - 1, !.inbound = message]
    /\ IF message.author = bot_user
       THEN UNCHANGED <<conversation_memory, loop, obs>>
       ELSE IF message.guild = None
       THEN UNCHANGED <<conversation_memory, loop, obs>>
       ELSE IF message.guild # DISCORD_SERVER_ID
       THEN UNCHANGED <<conversation_memory, loop, obs>>
       ELSE IF startswith(message.content, command_prefix)
       THEN UNCHANGED <<conversation_memory, loop, obs>>
       ELSE IF message.mentions \/ message.guild = None
       THEN StartRun([author |-> message.author, channel |-> message.channel],
                     stripped_content(message))
       ELSE UNCHANGED <<conversation_memory, loop, obs>>
    /\ UNCHANGED <<now, ready, sentry_session, sentry_tools, sent, mlog, last_read>>

\* messages.create returns: the response is appended and scanned
LLMReturn(r, content) ==
    /\ loop[r].pc = "await_llm"
    /\ content \in LLMResponses(loop[r].iteration)
    /\ count_tool_use(content) <= env.tooluses
    /\ LET l == [loop[r] EXCEPT
                   !.messages = Append(@, [role |-> "assistant", content |-> content]),
                   !.response = content,
                   !.tool_calls_made = FALSE,
                   !.tool_results = <<>>]
           o == [obs[r] EXCEPT !.calls = <<>>]
       IN Step(r, Scan(l, o, 1, sentry_session, now))
    /\ env' = [env EXCEPT !.tooluses = @ - count_tool_use(content)]
    /\ UNCHANGED <<now, ready, sentry_session, sentry_tools, sent, mlog, last_read>>

\* (mutant) the failed query is issued again
retry_on_exception(l, e) == [l EXCEPT !.pc = "await_llm"]

\* lines 234-236: the exception of the query ends the run
on_exception(l, e) == [l EXCEPT !.pc = "done", !.result = error_reply(e)]

\* messages.create raises
LLMRaise(r, e) ==
    /\ loop[r].pc = "await_llm"
    /\ env.anomalies > 0
    /\ loop' = [loop EXCEPT ![r] = on_exception(@, e)]
    /\ obs' = [obs EXCEPT ![r].llm_error = e]
    /\ env' = [env EXCEPT !.anomalies = @ - 1]
    /\ UNCHANGED <<now, ready, sentry_session, sentry_tools, conversation_memory,
                   sent, mlog, last_read>>

\* call_tool returns: its result is collected and the scan goes on
ToolReturn(r, reply) ==
    /\ loop[r].pc = "await_tool"
    /\ \/ reply = RegularReply
       \/ reply \in IrregularReplies /\ env.anomalies > 0
    /\ LET block == loop[r].response[loop[r].idx]
           l == [loop[r] EXCEPT
                   !.tool_results = Append(@, tool_result_ok(block, reply))]
           o == [obs[r] EXCEPT !.inflight = @ \ {block.id},
                               !.reported = IF reply.isError
                                            THEN @ \cup {block.id} ELSE @]
       IN Step(r, Scan(l, o, loop[r].idx + 1, sentry_session, now))
    /\ env' = [env EXCEPT !.anomalies = IF reply = RegularReply THEN @ ELSE @ - 1]
    /\ UNCHANGED <<now, ready, sentry_session, sentry_tools, sent, mlog, last_read>>

\* call_tool raises: the error is collected as a result and the scan goes on
ToolRaise(r, e) ==
    /\ loop[r].pc = "await_tool"
    /\ env.anomalies > 0
    /\ LET block == loop[r].response[loop[r].idx]
           l == [loop[r] EXCEPT
                   !.tool_results = Append(@, tool_result_error(block, e))]
           o == [obs[r] EXCEPT !.inflight = @ \ {block.id},
                               !.failed = @ \cup {<<block.id, e>>}]
       IN Step(r, Scan(l, o, loop[r].idx + 1, sentry_session, now))
    /\ env' = [env EXCEPT !.anomalies = @ - 1]
    /\ UNCHANGED <<now, ready, sentry_session, sentry_tools, sent, mlog, last_read>>

\* the ask command sends what the run returned, in chunks, and ends
Send(r) ==
    /\ loop[r].pc = "done"
    /\ sent' = dispatch(loop[r].result)
    /\ loop' = [loop EXCEPT ![r] = IdleLoop]
    /\ obs' = [obs EXCEPT ![r] = IdleObs]
    /\ UNCHANGED <<now, ready, sentry_session, sentry_tools, conversation_memory,
                   env, mlog, last_read>>

\* the forget command
Forget(ctx) ==
    /\ ready
    /\ env.commands > 0
    /\ conversation_memory' = clear(conversation_memory, ctx)
    /\ mlog' = [mlog EXCEPT ![get_memory_key(ctx)].since =
                                Len(mlog[get_memory_key(ctx)].turns)]
    /\ obs' = Disturb(obs, get_memory_key(ctx), 0)
    /\ sent' = <<"Conversation memory cleared!">>
    /\ env' = [env EXCEPT !.commands = @ - 1]
    /\ last_read' = NoRead
    /\ UNCHANGED <<now, ready, sentry_session, sentry_tools, loop>>

\* the memory command
MemoryStatus(ctx) ==
    /\ ready
    /\ env.commands > 0
    /\ sent' = <<"I remember "
                 \o ToString(Len(conversation_memory[get_memory_key(ctx)]))
                 \o " messages from our conversation">>
    /\ env' = [env EXCEPT !.commands = @ - 1]
    /\ last_read' = NoRead
    /\ UNCHANGED <<now, ready, sentry_session, sentry_tools, conversation_memory,
                   loop, obs, mlog>>

\* the status command
Status ==
    /\ ready
    /\ env.commands > 0
    /\ sent' = IF sentry_session # None
               THEN <<"Connected to Sentry with " \o ToString(Len(sentry_tools))
                      \o " tools available">>
               ELSE <<"Not connected to Sentry">>
    /\ env' = [env EXCEPT !.commands = @ - 1]
    /\ UNCHANGED <<now, ready, sentry_session, sentry_tools, conversation_memory,
                   loop, obs, mlog, last_read>>

\* an hour passes
Tick ==
    /\ now < env.clock
    /\ now' = now + 1
    /\ last_read' = NoRead
    /\ UNCHANGED <<ready, sentry_session, sentry_tools, conversation_memory,
                   loop, obs, env, sent, mlog>>

----------------------------------------------------------------------------
(* The bot *)

\* What the environment does in one behaviour is bounded by one of these
\* budgets: a single long run, a single run with failures and commands, or
\* several short runs spread over some hours.  `slots` is the number of
\* handlers that may be in progress at once; `handshake` records how
\* connect_to_sentry ended.
LongRun ==
    [runs |-> 1, tooluses |-> MaxToolUses, anomalies |-> 0, commands |-> 0,
     clock |-> 0, slots |-> 1, asked |-> 0, appends |-> 0,
     handshake |-> "never", long |-> {},
     messages |-> 0, inbound |-> NoMessage]

FaultyRun ==
    [runs |-> 1, tooluses |-> MaxFaultToolUses, anomalies |-> MaxAnomalies,
     commands |-> MaxCommands, clock |-> 0, slots |-> 1, asked |-> 0,
     appends |-> 0,
     handshake |-> "never", long |-> {},
     messages |-> 0, inbound |-> NoMessage]

ShortRuns ==
    [runs |-> MaxRuns, tooluses |-> 0, anomalies |-> 0,
     commands |-> 0, clock |-> MaxClock, slots |-> 1, asked |-> 0,
     appends |-> 0,
     handshake |-> "never", long |-> {},
     messages |-> 0, inbound |-> NoMessage]

\* a run on a memory that earlier conversations have nearly filled
LateRun ==
    [runs |-> 1, tooluses |-> MaxShortToolUses, anomalies |-> 0, commands |-> 0,
     clock |-> MaxLateClock, slots |-> 1, asked |-> 0, appends |-> 0,
     handshake |-> "never", long |-> {},
     messages |-> 0, inbound |-> NoMessage]

\* a run that the LLM answers with a long text
LongAnswer ==
    [runs |-> 1, tooluses |-> 0, anomalies |-> 0, commands |-> 0,
     clock |-> 0, slots |-> 1, asked |-> 0, appends |-> 0,
     handshake |-> "never", long |-> ReplyLengths,
     messages |-> 0, inbound |-> NoMessage]

\* messages that are not commands arrive
Mentions ==
    [runs |-> 0, tooluses |-> 0, anomalies |-> 0, commands |-> 0,
     clock |-> 0, slots |-> 1, asked |-> 0, appends |-> 0,
     handshake |-> "never", long |-> {},
     messages |-> MaxMessages, inbound |-> NoMessage]

\* two handlers in progress at once
TwoRuns ==
    [runs |-> MaxPairRuns, tooluses |-> MaxPairToolUses, anomalies |-> 0,
     commands |-> 0, clock |-> 0, slots |-> 2, asked |-> 0, appends |-> 0,
     handshake |-> "never", long |-> {},
     messages |-> 0, inbound |-> NoMessage]

Scenarios == {LongRun, FaultyRun, ShortRuns, LongAnswer, TwoRuns, Mentions}

Next ==
    \/ \E outcome \in HandshakeOutcomes, catalog \in Catalogs :
          SetupHook(outcome, catalog)
    \/ \E ctx \in Contexts, question \in Questions(env.asked + 1) :
          Ask(ctx, question)
    \/ \E message \in Messages : OnMessage(message)
    \/ \E r \in Runs : \E content \in LLMResponses(loop[r].iteration) :
          LLMReturn(r, content)
    \/ \E r \in Runs, e \in LLMErrors : LLMRaise(r, e)
    \/ \E r \in Runs, reply \in {RegularReply} \cup IrregularReplies :
          ToolReturn(r, reply)
    \/ \E r \in Runs, e \in ToolErrors : ToolRaise(r, e)
    \/ \E r \in Runs : Send(r)
    \/ \E ctx \in Contexts : Forget(ctx)
    \/ \E ctx \in Contexts : MemoryStatus(ctx)
    \/ Status
    \/ Tick

\* SentryBot.__init__
Fresh ==
    /\ now = 0
    /\ sentry_session = None
    /\ sentry_tools = <<>>
    /\ conversation_memory = [k \in Keys |-> <<>>]
    /\ loop = [r \in Runs |-> IdleLoop]
    /\ obs = [r \in Runs |-> IdleObs]
    /\ sent = <<>>
    /\ mlog = [k \in Keys |-> NoLog]
    /\ last_read = NoRead

\* what n turns of earlier exchanges, stored at hour 0, look like
Earlier(n) ==
    [i \in 1..n |->
        new_turn(IF i % 2 = 1 THEN "user" ELSE "assistant",
                 "earlier " \o ToString(i), 0)]

\* the bot after earlier conversations, with no handler in progress
Resumed ==
    /\ now = 0
    /\ sentry_session = None
    /\ sentry_tools = <<>>
    /\ conversation_memory = [k \in Keys |-> Earlier(MaxStored)]
    /\ loop = [r \in Runs |-> IdleLoop]
    /\ obs = [r \in Runs |-> IdleObs]
    /\ sent = <<>>
    /\ mlog = [k \in Keys |-> NoLog]
    /\ last_read = NoRead

Init ==
    /\ ready = FALSE
    /\ \/ Fresh /\ env \in Scenarios
       \/ Resumed /\ env = LateRun

Spec == Init /\ [][Next]_vars

\* An awaited messages.create or call_tool eventually returns or raises.
Respond(r) ==
    \/ \E content \in LLMResponses(loop[r].iteration) : LLMReturn(r, content)
    \/ \E e \in LLMErrors : LLMRaise(r, e)

ToolDone(r) ==
    \/ \E reply \in {RegularReply} \cup IrregularReplies : ToolReturn(r, reply)
    \/ \E e \in ToolErrors : ToolRaise(r, e)

Fairness == \A r \in Runs : WF_vars(Respond(r)) /\ WF_vars(ToolDone(r))

\* a run during which queries and calls fail
FailingRun ==
    [runs |-> 1, tooluses |-> MaxFailToolUses, anomalies |-> MaxFailAnomalies,
     commands |-> 0, clock |-> 0, slots |-> 1,
     asked |-> 0, appends |-> 0, handshake |-> "never", long |-> {},
     messages |-> 0, inbound |-> NoMessage]

\* a run during which commands arrive and time passes
BusyRun ==
    [runs |-> 1, tooluses |-> 0, anomalies |-> 0,
     commands |-> MaxBusyCommands, clock |-> MaxBusyClock, slots |-> 1,
     asked |-> 0, appends |-> 0, handshake |-> "never", long |-> {},
     messages |-> 0, inbound |-> NoMessage]

InitFair ==
    /\ ready = FALSE
    /\ Fresh
    /\ env \in {LongRun, FailingRun, BusyRun, Mentions}

FairSpec == InitFair /\ [][Next]_vars /\ Fairness

----------------------------------------------------------------------------
(* The memory store on its own: add_to_memory and get_conversation_history *)
(* called directly, with the forget and memory commands, once the bot is   *)
(* up.                                                                     *)

\* add_to_memory(ctx, role, content).  As ask_claude_with_memory stores them,
\* user and assistant turns alternate; the n-th turn of a key reads "turn n".
MemAppend(ctx) ==
    /\ ready
    /\ env.appends > 0
    /\ LET key == get_memory_key(ctx)
           n == Len(mlog[key].turns) + 1
           role == IF n % 2 = 1 THEN "user" ELSE "assistant"
           content == "turn " \o ToString(n)
       IN /\ conversation_memory' =
                add_to_memory(conversation_memory, ctx, role, content, now)
          /\ mlog' = [mlog EXCEPT ![key].turns =
                         Append(@, new_turn(role, content, now))]
    /\ env' = [env EXCEPT !.appends = @ - 1]
    /\ last_read' = NoRead
    /\ UNCHANGED <<now, ready, sentry_session, sentry_tools, loop, obs, sent>>

\* get_conversation_history(ctx)
MemRead(ctx) ==
    /\ ready
    /\ LET key == get_memory_key(ctx)
           before == conversation_memory[key]
           after == evict_memory(conversation_memory, ctx, now)
           since == IF Len(after[key]) < Len(before)
                    THEN Len(mlog[key].turns) - Len(after[key])
                    ELSE mlog[key].since
       IN /\ conversation_memory' = after
          /\ mlog' = [mlog EXCEPT ![key].since = since]
          /\ last_read' =
                [key |-> key, at |-> now, before |-> before,
                 messages |-> get_conversation_history(conversation_memory, ctx, now),
                 appended |-> SubSeq(mlog[key].turns, since + 1,
                                     Len(mlog[key].turns))]
    /\ UNCHANGED <<now, ready, sentry_session, sentry_tools, loop, obs, env, sent>>

Fill ==
    [runs |-> 0, tooluses |-> 0, anomalies |-> 0, commands |-> MaxMemCommands,
     clock |-> 0, slots |-> 1, asked |-> 0, appends |-> MaxAppends,
     handshake |-> "never", long |-> {},
     messages |-> 0, inbound |-> NoMessage]

Age ==
    [runs |-> 0, tooluses |-> 0, anomalies |-> 0, commands |-> MaxMemCommands,
     clock |-> MaxMemClock, slots |-> 1, asked |-> 0, appends |-> MaxAgedAppends,
     handshake |-> "never", long |-> {},
     messages |-> 0, inbound |-> NoMessage]

MemScenarios == {Fill, Age}

InitMem ==
    /\ Fresh
    /\ ready = TRUE
    /\ env \in MemScenarios

NextMem ==
    \/ \E ctx \in Contexts : MemAppend(ctx)
    \/ \E ctx \in Contexts : MemRead(ctx)
    \/ \E ctx \in Contexts : Forget(ctx)
    \/ \E ctx \in Contexts : MemoryStatus(ctx)
    \/ Tick

SpecMem == InitMem /\ [][NextMem]_vars

----------------------------------------------------------------------------
(* Reading a run's in-flight message list *)

\* messages = the turns read from memory, the user turn, and then, per
\* response, the raw assistant turn and (after a tool batch) the results turn
HistLen(r) == Len(obs[r].hist_ts)

Exchange(r) == SubSeq(loop[r].messages, HistLen(r) + 2, Len(loop[r].messages))

NumResponses(r) == (Len(Exchange(r)) + 1) \div 2

ResponseAt(r, i) == Exchange(r)[2 * i - 1].content

LastResponse(r) == ResponseAt(r, NumResponses(r))

\* the ids of the tool_use segments of a response, in emitted order
ToolUseIds(content) ==
    LET uses == SelectSeq(content, is_tool_use)
    IN [j \in 1..Len(uses) |-> uses[j].id]

\* the text segments of a response, joined in emitted order
RECURSIVE Join(_)
Join(texts) == IF texts = <<>> THEN "" ELSE texts[1] \o Join(Tail(texts))

TextOf(content) ==
    LET IsText(b) == b.type = "text"
        parts == SelectSeq(content, IsText)
    IN Join([j \in 1..Len(parts) |-> parts[j].text])

Settled(r) == loop[r].pc \in {"await_llm", "done"}

----------------------------------------------------------------------------
(* C1: tool calls of a response *)

\* the calls made for the latest response are exactly its tool_use segments,
\* in order and one at a time, and none is outstanding once the run has
\* moved on to the next query or returned
CallsMatch(r) ==
    /\ Cardinality(obs[r].inflight) <= 1
    /\ loop[r].pc = "await_tool" =>
          /\ obs[r].inflight = {loop[r].response[loop[r].idx].id}
          /\ obs[r].calls =
                ToolUseIds(SubSeq(loop[r].response, 1, loop[r].idx))
    /\ (Settled(r) /\ NumResponses(r) >= 1
          /\ count_tool_use(LastResponse(r)) >= 1) =>
          /\ obs[r].inflight = {}
          /\ obs[r].calls = ToolUseIds(LastResponse(r))

\* C1 as claimed: for every response with k >= 1 tool_use segments the loop
\* makes exactly k call_tool invocations, in emitted order, one at a time, all
\* finished before the next LLM query, whatever the state of the gateway.
C1_CallsForEveryToolUse ==
    \A r \in Runs : Active(r) => CallsMatch(r)

\* C1 as amended: the same, for a run whose tool gateway session is
\* available.  Without a session no call_tool is made and the response is
\* treated as the final answer.
C1_CallsWhenSessionAvailable ==
    \A r \in Runs : (Active(r) /\ sentry_session # None) => CallsMatch(r)

\* a batch of two calls has been made and the next query issued
C1_Witness ==
    \E r \in Runs :
        /\ loop[r].pc = "await_llm"
        /\ sentry_session # None
        /\ NumResponses(r) >= 1
        /\ Len(obs[r].calls) = 2
        /\ obs[r].calls = ToolUseIds(LastResponse(r))

----------------------------------------------------------------------------
(* C2: tool results of a batch *)

\* the results turn that answers response i of run r
ResultsAt(r, i) == Exchange(r)[2 * i]

\* response i is an assistant turn and is followed by one user turn that
\* holds one tool_result per tool_use segment, with its id, in order
Answered(r, i) ==
    /\ Exchange(r)[2 * i - 1].role = "assistant"
    /\ count_tool_use(ResponseAt(r, i)) >= 1
    /\ ResultsAt(r, i).role = "user"
    /\ Len(ResultsAt(r, i).content) = count_tool_use(ResponseAt(r, i))
    /\ \A j \in 1..Len(ResultsAt(r, i).content) :
          /\ ResultsAt(r, i).content[j].type = "tool_result"
          /\ ResultsAt(r, i).content[j].tool_use_id = ToolUseIds(ResponseAt(r, i))[j]

\* C2: whenever an LLM query is in flight, every earlier response of the run
\* that requested tool calls is followed in the message list by exactly one
\* user turn carrying one tool_result per invocation, correlated by id and in
\* invocation order; nothing else was appended.
C2_OneResultPerInvocation ==
    \A r \in Runs :
        loop[r].pc = "await_llm" =>
            /\ Len(Exchange(r)) = 2 * (loop[r].iteration - 1)
            /\ \A i \in 1..(loop[r].iteration - 1) : Answered(r, i)

\* a query in flight after a batch of two invocations
C2_Witness ==
    \E r \in Runs :
        /\ loop[r].pc = "await_llm"
        /\ loop[r].iteration >= 2
        /\ Len(ResultsAt(r, loop[r].iteration - 1).content) = 2

----------------------------------------------------------------------------
(* C3: the iteration cap *)

\* the turn the run stored for the user's message
IsUserTurnOf(r, turn) ==
    turn.role = "user" /\ turn.content = loop[r].user_message

StoredTexts(key) ==
    { conversation_memory[key][i].content :
        i \in 1..Len(conversation_memory[key]) }

\* C3: a run whose first 10 responses all request a tool call has issued
\* exactly 10 queries when it returns, returns the fixed cap message, and has
\* added nothing to memory but the user turn; the cap message is not stored.
C3_CapExceeded ==
    \A r \in Runs :
        ( /\ loop[r].pc = "done"
          /\ NumResponses(r) >= max_iterations
          /\ \A i \in 1..max_iterations : count_tool_use(ResponseAt(r, i)) >= 1 )
        => /\ obs[r].nqueries = max_iterations
           /\ NumResponses(r) = max_iterations
           /\ loop[r].result = TOO_MANY_STEPS
           /\ Len(obs[r].added) = 1
           /\ IsUserTurnOf(r, obs[r].added[1])
           /\ TOO_MANY_STEPS \notin StoredTexts(get_memory_key(loop[r].ctx))
           /\ ~obs[r].foreign =>
                 conversation_memory[get_memory_key(loop[r].ctx)]
                    [Len(conversation_memory[get_memory_key(loop[r].ctx)])]
                    = obs[r].added[1]

\* a run has returned after 10 responses that each requested a tool call
C3_Witness ==
    \E r \in Runs :
        /\ loop[r].pc = "done"
        /\ NumResponses(r) = max_iterations
        /\ \A i \in 1..max_iterations : count_tool_use(ResponseAt(r, i)) >= 1
        /\ loop[r].result = TOO_MANY_STEPS

----------------------------------------------------------------------------
(* C4: a response without tool calls ends the run *)

\* C4: once a response with no tool_use segment has arrived, the run has
\* returned: no further query and no call_tool was made for it, and the
\* result is the text segments of that response joined in order, or the
\* fallback when that is empty.  If it was the first response, exactly one
\* query was issued.
C4_TextOnlyTerminates ==
    \A r \in Runs :
        ( /\ Active(r)
          /\ NumResponses(r) >= 1
          /\ count_tool_use(LastResponse(r)) = 0 )
        => /\ loop[r].pc = "done"
           /\ obs[r].nqueries = NumResponses(r)
           /\ Len(Exchange(r)) = 2 * NumResponses(r) - 1
           /\ obs[r].calls = <<>>
           /\ obs[r].inflight = {}
           /\ loop[r].result =
                 (IF TextOf(LastResponse(r)) = "" THEN FALLBACK
                  ELSE TextOf(LastResponse(r)))

\* a first response of two text segments ended the run with their join
C4_Witness ==
    \E r \in Runs :
        /\ loop[r].pc = "done"
        /\ NumResponses(r) = 1
        /\ Len(LastResponse(r)) = 2
        /\ count_tool_use(LastResponse(r)) = 0
        /\ loop[r].result = "ab"
        /\ obs[r].nqueries = 1

----------------------------------------------------------------------------
(* C5: age of the history sent to the LLM *)

HistoryFresh(r) ==
    \A i \in 1..Len(obs[r].hist_ts) :
        obs[r].query_time - obs[r].hist_ts[i] <= memory_timeout

\* C5 as claimed: at the moment of every LLM query of a run, no turn taken
\* from memory and present in the message list is older than the retention
\* window.
C5_NoStaleTurnAtAnyQuery ==
    \A r \in Runs : loop[r].pc = "await_llm" => HistoryFresh(r)

\* C5 as amended: at the moment of the first LLM query of a run, which is
\* issued in the same step as the read of the history, no turn taken from
\* memory is older than the retention window.  Later queries of the run
\* resend the turns read at its start, whatever their age by then.
C5_NoStaleTurnAtFirstQuery ==
    \A r \in Runs :
        (loop[r].pc = "await_llm" /\ loop[r].iteration = 1) => HistoryFresh(r)

\* a first query that carries a turn exactly as old as the window
C5_Witness ==
    \E r \in Runs :
        /\ loop[r].pc = "await_llm"
        /\ loop[r].iteration = 1
        /\ obs[r].hist_ts # <<>>
        /\ obs[r].query_time - obs[r].hist_ts[1] = memory_timeout

----------------------------------------------------------------------------
(* C9: a failing LLM query *)

LastStored(key) == conversation_memory[key][Len(conversation_memory[key])]

\* C9: once an LLM query of a run has raised, at whatever iteration, the run
\* has returned the error string for that exception without issuing another
\* query; the run has added the user turn to memory and nothing else, and
\* (unless another handler changed the key's memory meanwhile) that user turn
\* is the last turn stored for the key.
C9_LLMFailureEndsRun ==
    \A r \in Runs :
        obs[r].llm_error # "" =>
            /\ loop[r].pc = "done"
            /\ loop[r].result = "Sorry, I encountered an error: " \o obs[r].llm_error
            /\ obs[r].nqueries = NumResponses(r) + 1
            /\ Len(obs[r].added) = 1
            /\ IsUserTurnOf(r, obs[r].added[1])
            /\ loop[r].result \notin StoredTexts(get_memory_key(loop[r].ctx))
            /\ ~obs[r].foreign =>
                  /\ conversation_memory[get_memory_key(loop[r].ctx)] # <<>>
                  /\ LastStored(get_memory_key(loop[r].ctx)) = obs[r].added[1]

\* the second query of a run raised, after a tool batch
C9_Witness ==
    \E r \in Runs :
        /\ obs[r].llm_error # ""
        /\ loop[r].pc = "done"
        /\ NumResponses(r) = 1
        /\ obs[r].nqueries = 2
        /\ ~obs[r].foreign
        /\ LastStored(get_memory_key(loop[r].ctx)).role = "user"

----------------------------------------------------------------------------
(* C10: a failing tool call *)

\* the tool results the run holds: those of the turns already appended and
\* those collected for the batch in progress
ResultsHeld(r) ==
    UNION { { ResultsAt(r, i).content[j] : j \in 1..Len(ResultsAt(r, i).content) } :
              i \in 1..(Len(Exchange(r)) \div 2) }
    \cup { loop[r].tool_results[j] : j \in 1..Len(loop[r].tool_results) }

\* C10: a call_tool that raised leaves a result "Error: <message>" under the
\* id of its invocation; the rest of its batch is still called, so every
\* results turn holds one result per tool_use segment of its response; and the
\* exception never becomes the run's result: a run that has returned after a
\* response with tool calls, with no LLM failure, has returned at the cap.
C10_ToolFailureIsData ==
    \A r \in Runs :
        Active(r) =>
            /\ \A f \in obs[r].failed :
                  /\ [type |-> "tool_result", tool_use_id |-> f[1],
                      content |-> "Error: " \o f[2]] \in ResultsHeld(r)
                  /\ loop[r].result # error_reply(f[2])
            /\ \A i \in 1..NumResponses(r) :
                  2 * i <= Len(Exchange(r)) =>
                      Len(ResultsAt(r, i).content) = count_tool_use(ResponseAt(r, i))
            /\ ( /\ loop[r].pc = "done"
                 /\ obs[r].failed # {}
                 /\ obs[r].llm_error = ""
                 /\ count_tool_use(LastResponse(r)) >= 1 )
               => /\ loop[r].result = TOO_MANY_STEPS
                  /\ NumResponses(r) = max_iterations

\* the first call of a batch of two raised, the second was still made, and
\* the next query is in flight with both results
C10_Witness ==
    \E r \in Runs :
        /\ loop[r].pc = "await_llm"
        /\ loop[r].iteration >= 2
        /\ obs[r].failed # {}
        /\ Len(obs[r].calls) = 2
        /\ Len(ResultsAt(r, loop[r].iteration - 1).content) = 2
        /\ ResultsAt(r, loop[r].iteration - 1).content[1].content
              = "Error: connection closed"
        /\ ResultsAt(r, loop[r].iteration - 1).content[2].content
              = "Issue resolved"

----------------------------------------------------------------------------
(* C6, C7, C8: the memory store *)

\* the last maxlen items of a sequence
LastN(seq) ==
    SubSeq(seq, IF Len(seq) > maxlen THEN Len(seq) - maxlen + 1 ELSE 1, Len(seq))

\* the turns appended to a key and not removed by a clear or an age eviction
Appended(key) ==
    SubSeq(mlog[key].turns, mlog[key].since + 1, Len(mlog[key].turns))

\* C6: a read returns at most N = 10 turns, and they are the most recently
\* appended turns of the key (since its last clear or age eviction), oldest
\* first: after more than N appends, exactly the last N.
C6_ReadReturnsMostRecent ==
    last_read # NoRead =>
        /\ Len(last_read.messages) <= maxlen
        /\ last_read.messages = claude_format(LastN(last_read.appended))

\* a read after more than N appends to the key
C6_Witness ==
    /\ last_read # NoRead
    /\ Len(last_read.appended) > maxlen
    /\ Len(last_read.messages) = maxlen
    /\ last_read.messages[maxlen].content = "turn 12"

\* C7: a read at time `at` returns exactly the stored turns that are not older
\* than the window, in order, and leaves exactly those in the store; a turn
\* removed by a read (or a clear) is in the store in no later state.
C7_ReadEvictsStale ==
    /\ last_read # NoRead =>
          LET InWindow(turn) == last_read.at - turn.timestamp <= memory_timeout
              kept == SelectSeq(last_read.before, InWindow)
          IN /\ last_read.messages = claude_format(kept)
             /\ conversation_memory[last_read.key] = kept
    /\ \A k \in Keys : conversation_memory[k] = LastN(Appended(k))

\* a read that evicted a stale turn and returned a newer one
C7_Witness ==
    /\ last_read # NoRead
    /\ last_read.messages # <<>>
    /\ Len(last_read.messages) < Len(last_read.before)
    /\ last_read.at - last_read.before[1].timestamp > memory_timeout

\* C8: the stored sequence of every key has at most N = 10 turns.
C8_CapacityBound ==
    \A k \in Keys : Len(conversation_memory[k]) <= maxlen

\* a key that is full after more than N appends
C8_Witness ==
    \E k \in Keys :
        /\ Len(conversation_memory[k]) = maxlen
        /\ Len(Appended(k)) > maxlen

----------------------------------------------------------------------------
(* C11: the error flag of a tool result *)

\* the is_error flag of a tool_result block; a block without the field has
\* the flag clear
ErrorFlag(result) ==
    "is_error" \in DOMAIN result /\ result.is_error

\* the ids of the calls of run r that failed: call_tool raised, or its reply
\* reported an error
FailedIds(r) == { f[1] : f \in obs[r].failed } \cup obs[r].reported

\* C11: every tool result held by a run has its error flag set if and only if
\* its call failed, by an exception of call_tool or by a reply with isError.
C11_ErrorFlagTellsFailure ==
    \A r \in Runs :
        Active(r) =>
            \A result \in ResultsHeld(r) :
                ErrorFlag(result) <=> result.tool_use_id \in FailedIds(r)

----------------------------------------------------------------------------
(* C12: what a successful run leaves in memory *)

\* the run has returned on a response (not at the cap, not on an exception):
\* the message list then ends with that response
Returned(r) == loop[r].pc = "done" /\ Len(Exchange(r)) % 2 = 1

\* the stored turns the run read when it started
History(r) ==
    [i \in 1..HistLen(r) |->
        new_turn(loop[r].messages[i].role, loop[r].messages[i].content,
                 obs[r].hist_ts[i])]

KeyOf(r) == get_memory_key(loop[r].ctx)

\* the run added the user turn and then an assistant turn with the returned
\* final text, and nothing else
TwoTurnsAdded(r) ==
    /\ loop[r].result = TextOf(LastResponse(r))
    /\ Len(obs[r].added) = 2
    /\ IsUserTurnOf(r, obs[r].added[1])
    /\ obs[r].added[2].role = "assistant"
    /\ obs[r].added[2].content = loop[r].result

\* C12 as claimed: a run that returned a non-empty final text added exactly
\* the user turn and the assistant turn with that text, and the key then
\* counts min(previous + 2, N) turns, previous being the count when the run
\* started (no other handler having touched the key meanwhile).
C12_CountIsPreviousPlusTwo ==
    \A r \in Runs :
        (Returned(r) /\ TextOf(LastResponse(r)) # "") =>
            /\ TwoTurnsAdded(r)
            /\ ~obs[r].foreign =>
                  Len(conversation_memory[KeyOf(r)]) = Min(obs[r].prev + 2, maxlen)

\* C12 as amended: the same, with the count min(p + 2, N) where p is the
\* number of stored turns still within the retention window when the run read
\* the history; the store then holds those turns, the user turn and the
\* assistant turn, cut to the last N.
C12_TwoTurnsPersisted ==
    \A r \in Runs :
        (Returned(r) /\ TextOf(LastResponse(r)) # "") =>
            /\ TwoTurnsAdded(r)
            /\ ~obs[r].foreign =>
                  /\ conversation_memory[KeyOf(r)] = LastN(History(r) \o obs[r].added)
                  /\ Len(conversation_memory[KeyOf(r)]) = Min(HistLen(r) + 2, maxlen)
                  /\ LastStored(KeyOf(r)).role = "assistant"
                  /\ LastStored(KeyOf(r)).content = loop[r].result

\* a run returned its final text after a tool batch, on a memory that held 9
\* turns: the key is full and its oldest turn has been dropped
C12_Witness ==
    \E r \in Runs :
        /\ Returned(r)
        /\ NumResponses(r) = 2
        /\ TextOf(LastResponse(r)) = "ab"
        /\ HistLen(r) = maxlen - 1
        /\ Len(conversation_memory[KeyOf(r)]) = maxlen
        /\ conversation_memory[KeyOf(r)][1].content = "earlier 2"

----------------------------------------------------------------------------
(* C13: runs without the tool gateway *)

\* what a run returns on its LLM's answer or on its LLM's failure
LLMAnswer(r) ==
    IF obs[r].llm_error # ""
    THEN "Sorry, I encountered an error: " \o obs[r].llm_error
    ELSE IF TextOf(LastResponse(r)) = "" THEN FALLBACK
    ELSE TextOf(LastResponse(r))

\* C13: when the handshake has not succeeded, every LLM query of a run is
\* issued without a "tools" parameter, no call_tool is invoked whatever the
\* response holds, and the run returns on its first response with the LLM's
\* answer (or with the error of the LLM query itself).
C13_RunsWithoutGateway ==
    \A r \in Runs :
        (Active(r) /\ env.handshake # "connected") =>
            /\ "tools" \notin DOMAIN obs[r].params
            /\ loop[r].pc # "await_tool"
            /\ obs[r].calls = <<>>
            /\ obs[r].inflight = {}
            /\ obs[r].nqueries = 1
            /\ loop[r].pc \in {"await_llm", "done"}
            /\ loop[r].pc = "done" => loop[r].result = LLMAnswer(r)

\* after a failed handshake a run has returned the text of a response that
\* also held tool_use segments
C13_Witness ==
    \E r \in Runs :
        /\ env.handshake = "failed"
        /\ loop[r].pc = "done"
        /\ count_tool_use(LastResponse(r)) = 2
        /\ loop[r].result = "ab"
        /\ "tools" \notin DOMAIN obs[r].params

----------------------------------------------------------------------------
(* C14: the chunked reply *)

\* C14: when a handler sends the text a run returned, it sends
\* ceil(len / 2000) messages, each of at most 2000 characters, whose
\* concatenation in order is the text; a text of at most 2000 characters is
\* sent as one message.
C14_DispatchChunks ==
    [][ \A r \in Runs :
          (loop[r].pc = "done" /\ loop'[r].pc = "idle") =>
              LET text == loop[r].result IN
              /\ Len(sent') = (Len(text) + chunk_size - 1) \div chunk_size
              /\ \A k \in 1..Len(sent') : Len(sent'[k]) <= chunk_size
              /\ Join(sent') = text
              /\ Len(text) <= chunk_size => sent' = <<text>> ]_vars

\* a text of 4500 characters has been sent as chunks of 2000, 2000 and 500
C14_Witness ==
    /\ Len(sent) = 3
    /\ Len(sent[1]) = 2000
    /\ Len(sent[2]) = 2000
    /\ Len(sent[3]) = 500
    /\ sent[1] # sent[2]
    /\ Join(sent) = Text(4500)

----------------------------------------------------------------------------
(* C15: conversations are kept apart *)

\* (user, channel) pairs whose ids are prefixes of one another
Ids == {"1", "11", "111"}

Pairs == [author : Ids, channel : Ids]

\* different pairs have different keys
DistinctKeys ==
    \A c1 \in Pairs : \A c2 \in Pairs :
        get_memory_key(c1) = get_memory_key(c2) => c1 = c2

\* C15: different (user, channel) pairs have different keys; a step changes
\* the stored turns of a key only if it is an append, a read or a clear for
\* that key; and a read returns the turns stored under its own key.
C15_KeysIsolated ==
    [][ /\ DistinctKeys
        /\ \A k \in Keys :
              conversation_memory'[k] # conversation_memory[k] =>
                 \/ mlog'[k] # mlog[k]
                 \/ last_read' # NoRead /\ last_read'.key = k
        /\ last_read' # NoRead =>
              /\ last_read'.messages =
                    claude_format(conversation_memory'[last_read'.key])
              /\ \A k \in Keys \ {last_read'.key} :
                    conversation_memory'[k] = conversation_memory[k] ]_vars

\* a read for one key returned its turns while the other key holds more
C15_Witness ==
    /\ last_read # NoRead
    /\ Len(last_read.messages) = 1
    /\ \E k \in Keys \ {last_read.key} : Len(conversation_memory[k]) = 3

----------------------------------------------------------------------------
(* C16: clear, then read *)

\* nothing was appended to the key since its last clear (or since a read
\* evicted all of it); so also for a key never used
Cleared(key) == mlog[key].since = Len(mlog[key].turns)

\* C16: a read of a key that was cleared, with no append to it since, returns
\* the empty list, and the key then counts 0 turns.
C16_ClearThenRead ==
    (last_read # NoRead /\ Cleared(last_read.key)) =>
        /\ last_read.messages = <<>>
        /\ Len(conversation_memory[last_read.key]) = 0

\* a key that was full (the clock has not moved, so nothing was evicted for
\* its age) has been cleared and then read
C16_Witness ==
    /\ last_read # NoRead
    /\ now = 0
    /\ Cleared(last_read.key)
    /\ Len(mlog[last_read.key].turns) >= maxlen
    /\ last_read.messages = <<>>

----------------------------------------------------------------------------
(* C17: the iteration counter and termination *)

\* the ways a run ends
Succeeded(r) ==
    /\ Returned(r)
    /\ obs[r].llm_error = ""
    /\ loop[r].result = final_reply(TextOf(LastResponse(r)))

Capped(r) ==
    /\ ~Returned(r)
    /\ obs[r].llm_error = ""
    /\ loop[r].iteration = max_iterations
    /\ loop[r].result = TOO_MANY_STEPS

Failed(r) ==
    /\ obs[r].llm_error # ""
    /\ loop[r].result = error_reply(obs[r].llm_error)

Outcomes(r) ==
    (IF Succeeded(r) THEN {"success"} ELSE {})
    \cup (IF Capped(r) THEN {"cap"} ELSE {})
    \cup (IF Failed(r) THEN {"error"} ELSE {})

\* C17: the iteration counter of a run is the number of LLM queries it has
\* issued: 0 when the run starts, raised by exactly 1 with each query, never
\* above 10; and when every awaited LLM query and tool call eventually returns
\* or raises, every run eventually returns, with exactly one of the outcomes
\* success, cap exceeded, error.
C17_CounterAndTermination ==
    /\ [](\A r \in Runs :
            /\ loop[r].iteration \in 0..max_iterations
            /\ loop[r].iteration = obs[r].nqueries
            /\ loop[r].pc = "done" => Cardinality(Outcomes(r)) = 1)
    /\ [][ \A r \in Runs :
             /\ loop'[r].pc = "idle" => loop'[r].iteration = 0
             /\ (loop'[r].pc # "idle" /\ loop'[r].iteration # loop[r].iteration) =>
                   /\ loop'[r].iteration = loop[r].iteration + 1
                   /\ loop'[r].pc = "await_llm"
             /\ (loop'[r].pc = "await_llm" /\ loop'[r] # loop[r]) =>
                   loop'[r].iteration = loop[r].iteration + 1 ]_vars
    /\ \A r \in Runs : Active(r) ~> loop[r].pc = "done"

\* a run has returned at the cap, its counter at 10
C17_Witness ==
    \E r \in Runs :
        /\ loop[r].pc = "done"
        /\ loop[r].iteration = max_iterations
        /\ Outcomes(r) = {"cap"}

----------------------------------------------------------------------------
(* C18: when the assistant turn is stored *)

AddedAssistant(r) ==
    \E i \in 1..Len(obs[r].added) : obs[r].added[i].role = "assistant"

\* the strings a run returns in place of an answer
FixedReplies ==
    {FALLBACK, TOO_MANY_STEPS} \cup { error_reply(e) : e \in LLMErrors }

\* C18: a run adds an assistant turn to memory if and only if it has returned
\* on a response whose text segments join to a non-empty text; a run that
\* returned on a response without text returned the fallback and added only
\* the user turn; and no stored turn has the fallback, the cap message or an
\* error string as its content.
C18_AssistantTurnIffFinalText ==
    /\ \A r \in Runs :
          Active(r) =>
             /\ AddedAssistant(r) <=>
                   (Returned(r) /\ TextOf(LastResponse(r)) # "")
             /\ (Returned(r) /\ TextOf(LastResponse(r)) = "") =>
                   /\ loop[r].result = FALLBACK
                   /\ Len(obs[r].added) = 1
             /\ ~obs[r].foreign =>
                   conversation_memory[KeyOf(r)] = LastN(History(r) \o obs[r].added)
    /\ \A k \in Keys : StoredTexts(k) \cap FixedReplies = {}

\* after a tool batch a run returned on a response whose only text segment
\* is empty: the fallback is returned and the user turn is the last stored
C18_Witness ==
    \E r \in Runs :
        /\ Returned(r)
        /\ NumResponses(r) = 2
        /\ LastResponse(r) = <<TextBlock("")>>
        /\ loop[r].result = FALLBACK
        /\ ~obs[r].foreign
        /\ LastStored(KeyOf(r)).role = "user"

----------------------------------------------------------------------------
(* C19: concurrent runs on different conversations *)

\* the conversation a step of run r works on
StepCtx(r) == IF loop'[r].pc # "idle" THEN loop'[r].ctx ELSE loop[r].ctx

\* what run r has built and stored is made of its own history, question and
\* responses only
OwnWork(r) ==
    /\ Len(loop[r].messages) >= HistLen(r) + 1
    /\ loop[r].messages[HistLen(r) + 1] =
          [role |-> "user", content |-> loop[r].user_message]
    /\ loop[r].pc = "await_llm" => obs[r].params.messages = loop[r].messages
    /\ \A i \in 1..(Len(Exchange(r)) \div 2) : Answered(r, i)
    /\ loop[r].pc = "done" => Cardinality(Outcomes(r)) = 1
    /\ ~obs[r].foreign =>
          conversation_memory[KeyOf(r)] = LastN(History(r) \o obs[r].added)

\* C19: while two runs on different (user, channel) pairs are in progress,
\* a step of one of them changes neither the other's locals nor the other's
\* stored conversation, at whatever suspension point it is taken; and each
\* run's message list, result and stored turns are those its own history,
\* question and responses give.
C19_ConcurrentRunsIndependent ==
    /\ [](\A r1 \in Runs : \A r2 \in Runs \ {r1} :
            (Active(r1) /\ Active(r2) /\ loop[r1].ctx # loop[r2].ctx) =>
                OwnWork(r1))
    /\ [][ \A r1 \in Runs : \A r2 \in Runs \ {r1} :
             (loop'[r1] # loop[r1] /\ Active(r2) /\ loop[r2].ctx # StepCtx(r1)) =>
                 /\ loop'[r2] = loop[r2]
                 /\ obs'[r2] = obs[r2]
                 /\ conversation_memory'[KeyOf(r2)] = conversation_memory[KeyOf(r2)]
          ]_vars

\* two runs on different conversations have both returned, one of them after
\* a tool call, and each conversation holds its own two turns
C19_Witness ==
    \E r1 \in Runs : \E r2 \in Runs \ {r1} :
        /\ Returned(r1) /\ Returned(r2)
        /\ loop[r1].ctx # loop[r2].ctx
        /\ NumResponses(r1) = 2
        /\ Len(conversation_memory[KeyOf(r1)]) = 2
        /\ Len(conversation_memory[KeyOf(r2)]) = 2
        /\ conversation_memory[KeyOf(r1)][1].content = loop[r1].user_message
        /\ conversation_memory[KeyOf(r2)][1].content = loop[r2].user_message

----------------------------------------------------------------------------
(* C20: the automatic reply of on_message *)

\* the message is a user's, is not a command, and mentions the bot in the
\* configured guild or is a direct message
AsksTheBot(message) ==
    /\ message.author # bot_user
    /\ ~startswith(message.content, command_prefix)
    /\ \/ message.guild = None
       \/ message.guild = DISCORD_SERVER_ID /\ message.mentions

\* C20: when on_message has handled a message that asks the bot, exactly one
\* run of ask_claude_with_memory has started, for the message's author and
\* channel, on the content without the mention (the greeting when nothing is
\* left); when it has handled a message from another guild, no run has
\* started, no memory has changed and nothing has been sent.
C20_AutoReply ==
    [][ env'.messages < env.messages =>
          /\ AsksTheBot(env'.inbound) =>
                \E r \in Runs :
                    /\ ~Active(r)
                    /\ loop'[r].pc = "await_llm"
                    /\ loop'[r].ctx = [author |-> env'.inbound.author,
                                       channel |-> env'.inbound.channel]
                    /\ loop'[r].user_message = stripped_content(env'.inbound)
                    /\ \A r2 \in Runs \ {r} : loop'[r2] = loop[r2]
          /\ env'.inbound.guild \notin {None, DISCORD_SERVER_ID} =>
                /\ loop' = loop
                /\ conversation_memory' = conversation_memory
                /\ sent' = sent ]_vars

----------------------------------------------------------------------------
(* C21: the last turn of a query's message list *)

\* the message list of the query in flight
Sent(r) == obs[r].params.messages

\* C21: the message list of every LLM query is not empty and ends with a
\* user-role turn.  For the first query of a run it is the turns read from
\* memory followed, once, by the new user message; for every later query it
\* ends with the tool-results turn of the batch just finished, which follows
\* the assistant turn of the response.
C21_QueryEndsWithUserTurn ==
    \A r \in Runs :
        loop[r].pc = "await_llm" =>
            /\ Sent(r) # <<>>
            /\ Sent(r) = loop[r].messages
            /\ Sent(r)[Len(Sent(r))].role = "user"
            /\ loop[r].iteration = 1 =>
                  /\ Len(Sent(r)) = Len(obs[r].hist_ts) + 1
                  /\ Sent(r)[Len(Sent(r))] =
                        [role |-> "user", content |-> loop[r].user_message]
                  /\ ~obs[r].foreign =>
                        claude_format(conversation_memory[KeyOf(r)]) = LastN(Sent(r))
            /\ loop[r].iteration > 1 =>
                  /\ Len(Sent(r)) = Len(obs[r].hist_ts) + 2 * loop[r].iteration - 1
                  /\ Sent(r)[Len(Sent(r))] = ResultsAt(r, loop[r].iteration - 1)
                  /\ Answered(r, loop[r].iteration - 1)
                  /\ Sent(r)[Len(Sent(r)) - 1].role = "assistant"

\* the second query of a run that read 9 turns from memory is in flight, its
\* list ending with the results turn
C21_Witness ==
    \E r \in Runs :
        /\ loop[r].pc = "await_llm"
        /\ loop[r].iteration = 2
        /\ Len(obs[r].hist_ts) = maxlen - 1
        /\ Len(Sent(r)) = maxlen + 2
        /\ Sent(r)[maxlen].content = loop[r].user_message
        /\ Sent(r)[maxlen + 2].content[1].type = "tool_result"

====
